---- MODULE Spec2Model ----
(***************************************************************************)
(* Model of the SDL_GC controller backend                                  *)
(* (Source/Core/InputCommon/ControllerInterface/SDL_GC/SDL_GC.cpp, .h):    *)
(* the hotplug coordinator (Init / DeInit / PopulateDevices and the        *)
(* background thread), the Device adapter and its control objects.         *)
(*                                                                         *)
(* The SDL driver and the ControllerInterface registry are collaborators   *)
(* whose code is not part of the backend; they are modelled from their     *)
(* described contracts.                                                    *)
(***************************************************************************)
EXTENDS Integers, Sequences, FiniteSets, TLC

\* ------------------------------------------------------------------ bounds
MaxInst == 1       \* controllers plugged in during one behaviour
MaxAdapters == 2   \* Device objects constructed during one behaviour
MaxCycles == 1     \* Init() calls during one behaviour

\* ------------------------------------------------------------------ state
VARIABLES
  joinable,    \* s_hotplug_thread.joinable()
  caller,      \* position of the thread calling Init/DeInit/PopulateDevices
  init_event,  \* s_init_event: the flag of the one-shot completion signal
  thr,         \* position of the background (hotplug) thread
  sdl_up,      \* the driver's event queue and joystick layer are running
  queue,       \* the driver event queue, oldest first
  present,     \* plugged controllers: present[i+1] is the instance id of index i
  next_inst,   \* next joystick instance id the driver hands out
  accepting,   \* the Host Registry accepts devices (ControllerInterface is init)
  registry,    \* devices the Host Registry holds (this source's adapters)
  hostrefs,    \* the adapter a host thread holds a shared reference to, if any
  adapters,    \* every Device constructed so far, by construction order
  by,          \* driver operations performed off the coordinator thread
  cycle,       \* Init() calls made so far
  g,           \* history of the current Init cycle
  call,        \* the latest Init/DeInit/PopulateDevices call and what it did
  motor,       \* one adapter's motor_val and its rumble commits
  axis,        \* one stick axis: raw sample and the two polarity controls
  battery,     \* one adapter's m_battery_level and the power state last read
  pref,        \* one adapter's construction: index asked for and m_index stored
  disp         \* dispatch log of the thread, kept when a queue is under observation

lifeVars == <<joinable, caller, init_event, thr, sdl_up, queue, present,
              next_inst, accepting, registry, hostrefs, adapters, by, cycle, g, call>>
\* State of the single-object observations other than motor and axis.
unitVars == <<battery, pref>>
vars == <<joinable, caller, init_event, thr, sdl_up, queue, present, next_inst,
          accepting, registry, hostrefs, adapters, by, cycle, g, call, motor, axis,
          unitVars, disp>>

\* ------------------------------------------------------------------ events
\* SDL_CONTROLLERDEVICEADDED carries a device index, SDL_CONTROLLERDEVICEREMOVED
\* an instance id; the two custom kinds carry nothing.
AddEv(i) == [type |-> "add", which |-> i]
RemEv(k) == [type |-> "rem", which |-> k]
PopEv == [type |-> "pop", which |-> 0]
StopEv == [type |-> "stop", which |-> 0]

\* ------------------------------------------------------------------ catalogs
NumButtons == 16
NumTriggers == 2
NumStickAxes == 4
NumMotors == 2

\* Inputs and outputs the Device constructor adds.
NumInputs == NumButtons + NumTriggers + 2 * NumStickAxes + 1
NumOutputs == NumMotors

\* ------------------------------------------------------------------ adapters
\* The part of the state that OpenAndAddDevice and the registry work on.
\* scans counts the clear-and-rescan operations one dispatch performs.
World == [adapters |-> adapters, registry |-> registry,
          hostrefs |-> hostrefs, by |-> by, scans |-> 0]

\* Device::Device(controller, u8 index): the index parameter is a u8.
DeviceCtor(inst, index) ==
  [kind |-> "Device", index |-> index % 256, inst |-> inst, closes |-> 0,
   refused |-> FALSE]

\* A destructor that forgets to close the controller.
DeviceDtorLeaks(w, a, t) == w

\* Driver operation op was performed on thread t; the coordinator thread's own
\* operations are not recorded.
Did(log, op, t) == IF t = "coord" THEN log ELSE log \cup {<<op, t>>}

\* Device::~Device(): SDL_GameControllerClose(m_controller), on thread t.
DeviceDtor(w, a, t) ==
  [w EXCEPT !.adapters[a].closes = @ + 1, !.by = Did(@, "close", t)]

\* A std::shared_ptr<Device> goes away on thread t: the Device is destroyed
\* when no other reference (the registry's, a host thread's) is left.
Unref(w, a, t) ==
  IF a \in w.registry \cup w.hostrefs THEN w ELSE DeviceDtor(w, a, t)

RECURSIVE UnrefAll(_, _, _)
UnrefAll(w, S, t) ==
  IF S = {} THEN w
  ELSE LET a == CHOOSE x \in S : TRUE
       IN UnrefAll(Unref(w, a, t), S \ {a}, t)

\* ControllerInterface::AddDevice: refused while the registry is not
\* accepting; the refused adapter's reference dies with the call.
AddDevice(w, a, t) ==
  IF accepting
    THEN [w EXCEPT !.registry = @ \cup {a}]
    ELSE Unref([w EXCEPT !.adapters[a].refused = TRUE], a, t)

\* A removal predicate that does not look at the device's class.
IsThisInstanceAnyClass(d, which) == d.inst = which

\* The predicate handed to RemoveDevice: dynamic_cast<const Device*>(device)
\* succeeds and SDL_JoystickInstanceID(GetSDLJoystick()) == e.cdevice.which.
IsThisInstance(d, which) == d.kind = "Device" /\ d.inst = which

\* ControllerInterface::RemoveDevice(predicate); pred maps adapters to BOOLEAN.
RemoveDevice(w, pred, t) ==
  LET gone == {a \in w.registry : pred[a]}
  IN UnrefAll([w EXCEPT !.registry = @ \ gone], gone, t)

\* SDL_GameControllerOpen(index): the instance id behind the handle, 0 for NULL.
SDL_GameControllerOpen(index, ok) ==
  IF sdl_up /\ ok /\ index \in 0 .. (Len(present) - 1)
    THEN present[index + 1] ELSE 0

\* An OpenAndAddDevice that does not test the handle the open returned.
OpenAndAddDeviceUnchecked(w, index, ok, t) ==
  LET dev == SDL_GameControllerOpen(index, ok)
      a == Len(w.adapters) + 1
  IN AddDevice([w EXCEPT !.by = Did(@, "open", t),
                         !.adapters = Append(@, DeviceCtor(dev, index))], a, t)

\* OpenAndAddDevice(index), run on thread t; ok: the driver's open succeeds.
OpenAndAddDevice(w, index, ok, t) ==
  LET dev == SDL_GameControllerOpen(index, ok)
      w0 == [w EXCEPT !.by = Did(@, "open", t)]
  IN IF dev # 0
       THEN LET a == Len(w.adapters) + 1
                w1 == [w0 EXCEPT !.adapters = Append(@, DeviceCtor(dev, index))]
            IN IF NumInputs # 0 \/ NumOutputs # 0
                 THEN AddDevice(w1, a, t)
                 ELSE Unref(w1, a, t)
       ELSE w0

\* The populate callback: for (i = 0; i < SDL_NumJoysticks(); ++i) OpenAndAddDevice(i)
RECURSIVE ScanFrom(_, _, _, _)
ScanFrom(w, i, oks, t) ==
  IF i < Len(present)
    THEN ScanFrom(OpenAndAddDevice(w, i, i \in oks, t), i + 1, oks, t)
    ELSE w

\* A repopulate that does not clear the devices registered before.
PlatformPopulateKeeps(w, t) == [w EXCEPT !.scans = @ + 1]

\* ControllerInterface::PlatformPopulateDevices(callback): clear this source's
\* devices; the caller then runs the callback (ScanFrom) on the cleared list.
PlatformPopulateDevices(w, t) ==
  UnrefAll([w EXCEPT !.registry = {}, !.scans = @ + 1], w.registry, t)

\* A dispatcher that does not leave the loop on the stop event.
HandleStopIgnored(w, e, oks, t) ==
  [w |-> IF e.type = "add" THEN OpenAndAddDevice(w, e.which, e.which \in oks, t)
         ELSE IF e.type = "rem"
           THEN RemoveDevice(w, [a \in DOMAIN w.adapters |-> IsThisInstance(w.adapters[a], e.which)], t)
         ELSE IF e.type = "pop"
           THEN ScanFrom(PlatformPopulateDevices(w, t), 0, oks, t)
         ELSE w,
   cont |-> TRUE]

\* A dispatcher whose populate branch rescans without going through
\* PlatformPopulateDevices, so the devices registered before stay.
HandlePopulateKeeps(w, e, oks, t) ==
  IF e.type = "add"
    THEN [w |-> OpenAndAddDevice(w, e.which, e.which \in oks, t), cont |-> TRUE]
  ELSE IF e.type = "rem"
    THEN [w |-> RemoveDevice(w, [a \in DOMAIN w.adapters |-> IsThisInstance(w.adapters[a], e.which)], t),
          cont |-> TRUE]
  ELSE IF e.type = "pop"
    THEN [w |-> ScanFrom(PlatformPopulateKeeps(w, t), 0, oks, t),
          cont |-> TRUE]
  ELSE IF e.type = "stop"
    THEN [w |-> w, cont |-> FALSE]
  ELSE [w |-> w, cont |-> TRUE]

\* HandleEventAndContinue(e): the new world and whether the loop goes on.
HandleEventAndContinue(w, e, oks, t) ==
  IF e.type = "add"
    THEN [w |-> OpenAndAddDevice(w, e.which, e.which \in oks, t), cont |-> TRUE]
  ELSE IF e.type = "rem"
    THEN [w |-> RemoveDevice(w, [a \in DOMAIN w.adapters |-> IsThisInstance(w.adapters[a], e.which)], t),
          cont |-> TRUE]
  ELSE IF e.type = "pop"
    THEN [w |-> ScanFrom(PlatformPopulateDevices(w, t), 0, oks, t),
          cont |-> TRUE]
  ELSE IF e.type = "stop"
    THEN [w |-> w, cont |-> FALSE]
  ELSE [w |-> w, cont |-> TRUE]

\* ------------------------------------------------------------------ history
\* What the current Init cycle has done so far.
\* sdl_rc: result of SDL_Init (1: not called yet); reg: outcome of
\* SDL_RegisterEvents; drain_log: the first events the drain phase dispatched;
\* at_drain: events queued when the drain began and not dispatched yet;
\* left: how the thread function returned; acc_at_init: registry accepting
\* when Init() was called; signalled: s_init_event.Set() has run; returned:
\* Init() has returned; reg_at_return: registry size at that moment;
\* pop_after: PopulateDevices() was called after Init() returned, with the
\* registry accepting and a controller plugged in; stops, joins: stop events
\* DeInit() posted and joins it performed; quits: SDL_Quit() calls.
G0 == [sdl_rc |-> 1, reg |-> "unset", drain_log |-> <<>>, at_drain |-> 0,
       left |-> "running",
       acc_at_init |-> FALSE, signalled |-> FALSE, returned |-> FALSE,
       reg_at_return |-> 0, pop_after |-> FALSE, stops |-> 0, joins |-> 0,
       quits |-> 0]


\* Opens that the events already queued (or about to be queued by the driver
\* start) can still cause; inputs are only offered while the Device objects
\* they may construct fit in MaxAdapters.
PendingOpens ==
  Cardinality({i \in 1 .. Len(queue) : queue[i].type = "add"})
  + MaxInst * Cardinality({i \in 1 .. Len(queue) : queue[i].type = "pop"})
  + (IF thr = "init" THEN Len(present) ELSE 0)

Room(n) == Len(adapters) + PendingOpens + n <= MaxAdapters

\* SDL_PushEvent: the event is queued while the driver runs, dropped otherwise.
SDL_PushEvent(q, e) == IF sdl_up THEN Append(q, e) ELSE q

\* ------------------------------------------------------------------ caller
\* Init(): s_hotplug_thread = std::thread(...); then s_init_event.Wait().
InitCall ==
  /\ caller = "idle" /\ ~joinable
  /\ cycle < MaxCycles
  /\ Len(adapters) + Len(present) <= MaxAdapters
  /\ cycle' = cycle + 1
  /\ joinable' = TRUE
  /\ thr' = "init"
  /\ caller' = "init_wait"
  /\ g' = [G0 EXCEPT !.acc_at_init = accepting]
  /\ call' = [op |-> "Init", pushed |-> "none"]
  /\ UNCHANGED <<init_event, sdl_up, queue, present, next_inst, accepting,
                 registry, hostrefs, adapters, by, motor, axis, unitVars, disp>>

\* s_init_event.Wait() returns once the signal is set, and clears it.
InitReturn ==
  /\ caller = "init_wait" /\ init_event
  /\ init_event' = FALSE
  /\ caller' = "idle"
  /\ g' = [g EXCEPT !.returned = TRUE, !.reg_at_return = Cardinality(registry)]
  /\ UNCHANGED <<joinable, thr, sdl_up, queue, present, next_inst, accepting,
                 registry, hostrefs, adapters, by, call, cycle, motor, axis, unitVars, disp>>

\* A DeInit that posts the stop event whether or not a thread was started.
DeInitAlwaysPosts ==
  /\ caller = "idle"
  /\ queue' = SDL_PushEvent(queue, StopEv)
  /\ by' = Did(by, "post", "host")
  /\ g' = [g EXCEPT !.stops = IF @ < 2 THEN @ + 1 ELSE @]
  /\ call' = [op |-> "DeInit", pushed |-> "stop"]
  /\ caller' = IF joinable THEN "deinit_join" ELSE "idle"
  /\ UNCHANGED <<joinable, init_event, thr, sdl_up, present, next_inst,
                 accepting, registry, hostrefs, adapters, cycle, motor, axis, unitVars, disp>>

\* A DeInit that goes to the join without posting the stop event.
DeInitJoinsOnly ==
  /\ caller = "idle"
  /\ IF ~joinable
       THEN /\ call' = [op |-> "DeInit", pushed |-> "none"]
            /\ UNCHANGED <<caller, g>>
       ELSE /\ g' = [g EXCEPT !.stops = IF @ < 2 THEN @ + 1 ELSE @]
            /\ call' = [op |-> "DeInit", pushed |-> "none"]
            /\ caller' = "deinit_join"
  /\ UNCHANGED <<joinable, init_event, thr, sdl_up, queue, by, present, next_inst,
                 accepting, registry, hostrefs, adapters, cycle, motor, axis,
                 unitVars, disp>>

\* DeInit() up to the join: returns at once if the thread is not joinable,
\* else pushes the stop event.
DeInit ==
  /\ caller = "idle"
  /\ IF ~joinable
       THEN /\ call' = [op |-> "DeInit", pushed |-> "none"]
            /\ UNCHANGED <<caller, queue, by, g>>
       ELSE /\ queue' = SDL_PushEvent(queue, StopEv)
            /\ by' = Did(by, "post", "host")
            /\ g' = [g EXCEPT !.stops = IF @ < 2 THEN @ + 1 ELSE @]
            /\ call' = [op |-> "DeInit", pushed |-> "stop"]
            /\ caller' = "deinit_join"
  /\ UNCHANGED <<joinable, init_event, thr, sdl_up, present, next_inst,
                 accepting, registry, hostrefs, adapters, cycle, motor, axis, unitVars, disp>>

\* s_hotplug_thread.join() returns once the thread function has finished.
DeInitJoin ==
  /\ caller = "deinit_join" /\ thr = "exited"
  /\ thr' = "none"
  /\ joinable' = FALSE
  /\ caller' = "idle"
  /\ g' = [g EXCEPT !.joins = IF @ < 2 THEN @ + 1 ELSE @]
  /\ UNCHANGED <<init_event, sdl_up, queue, present, next_inst, accepting,
                 registry, hostrefs, adapters, by, call, cycle, motor, axis, unitVars, disp>>

\* A PopulateDevices that scans on the calling thread instead of posting.
PopulateDevicesInline ==
  /\ caller = "idle"
  /\ joinable /\ sdl_up /\ Len(adapters) + Len(present) <= MaxAdapters
  /\ \E oks \in SUBSET (0 .. (Len(present) - 1)) :
       LET w == ScanFrom(PlatformPopulateDevices(World, "host"), 0, oks, "host")
       IN /\ adapters' = w.adapters
          /\ registry' = w.registry
          /\ by' = w.by
  /\ call' = [op |-> "PopulateDevices", pushed |-> "none"]
  /\ UNCHANGED <<joinable, caller, init_event, thr, sdl_up, queue, present,
                 next_inst, accepting, hostrefs, g, cycle, motor, axis, unitVars, disp>>

\* PopulateDevices(): returns at once if the thread is not joinable, else
\* pushes the populate event and returns.
PopulateDevices ==
  /\ caller = "idle"
  /\ IF ~joinable
       THEN /\ call' = [op |-> "PopulateDevices", pushed |-> "none"]
            /\ UNCHANGED <<queue, by, g>>
       ELSE /\ sdl_up => Room(MaxInst)
            /\ queue' = SDL_PushEvent(queue, PopEv)
            /\ by' = Did(by, "post", "host")
            /\ g' = [g EXCEPT !.pop_after =
                       @ \/ (g.returned /\ accepting /\ Len(present) > 0)]
            /\ call' = [op |-> "PopulateDevices", pushed |-> "pop"]
  /\ UNCHANGED <<joinable, caller, init_event, thr, sdl_up, present, next_inst,
                 accepting, registry, hostrefs, adapters, cycle, motor, axis, unitVars, disp>>

\* ------------------------------------------------------------------ thread
\* The events the driver has queued when it comes up: one add per controller
\* already plugged in, possibly followed by a stop event posted meanwhile.
Seeds ==
  LET adds == [i \in 1 .. Len(present) |-> AddEv(i - 1)]
  IN {adds, Append(adds, StopEv)}

\* if (SDL_Init(...) == 0) { ERROR_LOG; return; }
StartFailed(rc) == rc = 0

\* SDL_Init(SDL_INIT_GAMECONTROLLER | SDL_INIT_HAPTIC) and the test of its
\* result. rc: 0 for success, -1 for failure; after a failure part of the
\* driver may still have come up.
ThreadSdlInit ==
  /\ thr = "init"
  /\ \E rc \in {0, -1}, up \in BOOLEAN, seed \in Seeds :
       /\ rc = 0 => up
       /\ sdl_up' = up
       /\ queue' = IF up THEN seed ELSE <<>>
       /\ IF StartFailed(rc)
            THEN /\ init_event' = TRUE
                 /\ thr' = "quit"
                 /\ g' = [g EXCEPT !.sdl_rc = rc, !.signalled = TRUE,
                                   !.left = "start"]
            ELSE /\ thr' = "reg"
                 /\ g' = [g EXCEPT !.sdl_rc = rc]
                 /\ UNCHANGED init_event
  /\ UNCHANGED <<joinable, caller, present, next_inst, accepting, registry,
                 hostrefs, adapters, by, call, cycle, motor, axis, unitVars, disp>>

\* SDL_RegisterEvents(2): (Uint32)-1 when the driver has no ids left.
ThreadRegister ==
  /\ thr = "reg"
  /\ \E ok \in BOOLEAN :
       IF ~ok
         THEN /\ init_event' = TRUE
              /\ thr' = "quit"
              /\ g' = [g EXCEPT !.reg = "fail", !.signalled = TRUE,
                                !.left = "register"]
         ELSE /\ thr' = "drain"
              /\ g' = [g EXCEPT !.reg = "ok", !.at_drain = Len(queue)]
              /\ UNCHANGED init_event
  /\ UNCHANGED <<joinable, caller, sdl_up, queue, present, next_inst, accepting,
                 registry, hostrefs, adapters, by, call, cycle, motor, axis, unitVars, disp>>

\* The dispatch log: while a queue is under observation, the event handed to
\* HandleEventAndContinue and the clear-and-rescan operations it performed.
Observed(d, e, n) ==
  IF d.on THEN [d EXCEPT !.log = Append(@, e), !.scans = @ + n] ELSE d

\* An init_guard that fires after the first poll, whatever it returned.
DrainSignalsEarly(polled, cont) == TRUE

\* init_guard runs when the drain block is left: the poll found nothing, or
\* the handler asked to stop.
DrainSignals(polled, cont) == ~polled \/ ~cont

\* The first events the drain phase dispatched.
Logged(log, e) == IF Len(log) < 3 THEN Append(log, e) ELSE log

\* One turn of: while (SDL_PollEvent(&e) != 0) if (!HandleEventAndContinue(e)) return;
ThreadDrain ==
  /\ thr = "drain"
  /\ IF queue = <<>>
       THEN /\ init_event' = DrainSignals(FALSE, TRUE)
            /\ thr' = "wait"
            /\ by' = Did(by, "pollq", "coord")
            /\ g' = [g EXCEPT !.signalled = DrainSignals(FALSE, TRUE)]
            /\ UNCHANGED <<queue, registry, adapters, disp>>
       ELSE \E oks \in SUBSET (0 .. (Len(present) - 1)) :
              LET r == HandleEventAndContinue(
                         [World EXCEPT !.by = Did(@, "pollq", "coord")],
                         Head(queue), oks, "coord")
                  sig == DrainSignals(TRUE, r.cont)
              IN /\ queue' = Tail(queue)
                 /\ adapters' = r.w.adapters
                 /\ registry' = r.w.registry
                 /\ by' = r.w.by
                 /\ thr' = IF r.cont THEN "drain" ELSE "quit"
                 /\ init_event' = (init_event \/ sig)
                 /\ disp' = Observed(disp, Head(queue), r.w.scans)
                 /\ g' = [g EXCEPT !.drain_log = Logged(@, Head(queue)),
                                   !.at_drain = IF @ > 0 THEN @ - 1 ELSE 0,
                                   !.signalled = @ \/ sig,
                                   !.left = IF r.cont THEN @ ELSE "drain_stop"]
  /\ UNCHANGED <<joinable, caller, sdl_up, present, next_inst, accepting,
                 hostrefs, call, cycle, motor, axis, unitVars>>

\* A wait loop that takes a run of equal events as one.
ThreadWaitCoalesces ==
  /\ thr = "wait"
  /\ queue # <<>>
  /\ \E oks \in SUBSET (0 .. (Len(present) - 1)) :
       LET r == HandleEventAndContinue(
                  [World EXCEPT !.by = Did(@, "waitq", "coord")],
                  Head(queue), oks, "coord")
           rest == Tail(queue)
       IN /\ queue' = IF rest # <<>> /\ Head(rest) = Head(queue)
                         THEN Tail(rest) ELSE rest
          /\ adapters' = r.w.adapters
          /\ registry' = r.w.registry
          /\ by' = r.w.by
          /\ thr' = IF r.cont THEN "wait" ELSE "quit"
          /\ g' = [g EXCEPT !.left = IF r.cont THEN @ ELSE "wait_stop"]
          /\ disp' = Observed(disp, Head(queue), r.w.scans)
  /\ UNCHANGED <<joinable, caller, init_event, sdl_up, present, next_inst,
                 accepting, hostrefs, call, cycle, motor, axis, unitVars>>

\* One turn of: while (SDL_WaitEvent(&e) != 0) if (!HandleEventAndContinue(e)) return;
ThreadWait ==
  /\ thr = "wait"
  /\ queue # <<>>
  /\ \E oks \in SUBSET (0 .. (Len(present) - 1)) :
       LET r == HandleEventAndContinue(
                  [World EXCEPT !.by = Did(@, "waitq", "coord")],
                  Head(queue), oks, "coord")
       IN /\ queue' = Tail(queue)
          /\ adapters' = r.w.adapters
          /\ registry' = r.w.registry
          /\ by' = r.w.by
          /\ thr' = IF r.cont THEN "wait" ELSE "quit"
          /\ g' = [g EXCEPT !.left = IF r.cont THEN @ ELSE "wait_stop"]
          /\ disp' = Observed(disp, Head(queue), r.w.scans)
  /\ UNCHANGED <<joinable, caller, init_event, sdl_up, present, next_inst,
                 accepting, hostrefs, call, cycle, motor, axis, unitVars>>

\* SDL_WaitEvent returns 0 (an error while waiting): the loop ends.
ThreadWaitError ==
  /\ thr = "wait"
  /\ thr' = "quit"
  /\ by' = Did(by, "waitq", "coord")
  /\ g' = [g EXCEPT !.left = "wait_error"]
  /\ UNCHANGED <<joinable, caller, init_event, sdl_up, queue, present, next_inst,
                 accepting, registry, hostrefs, adapters, call, cycle, motor, axis, unitVars, disp>>

\* A thread function that returns without releasing the driver.
ThreadQuitNoRelease ==
  /\ thr = "quit"
  /\ thr' = "exited"
  /\ UNCHANGED <<joinable, caller, init_event, sdl_up, queue, present, next_inst,
                 accepting, registry, hostrefs, adapters, by, cycle, g, call,
                 motor, axis, unitVars, disp>>

\* quit_guard: SDL_Quit() as the thread function returns.
ThreadQuit ==
  /\ thr = "quit"
  /\ sdl_up' = FALSE
  /\ queue' = <<>>
  /\ thr' = "exited"
  /\ g' = [g EXCEPT !.quits = IF @ < 2 THEN @ + 1 ELSE @]
  /\ UNCHANGED <<joinable, caller, init_event, present, next_inst, accepting,
                 registry, hostrefs, adapters, by, cycle, call, motor, axis,
                 unitVars, disp>>

\* ------------------------------------------------------------------ driver
\* A controller is plugged in: it takes the next index, and the running
\* driver queues SDL_CONTROLLERDEVICEADDED for it.
Plug ==
  /\ next_inst <= MaxInst
  /\ Room(1)
  /\ present' = Append(present, next_inst)
  /\ next_inst' = next_inst + 1
  /\ queue' = SDL_PushEvent(queue, AddEv(Len(present)))
  /\ UNCHANGED <<joinable, caller, init_event, thr, sdl_up, accepting, registry,
                 hostrefs, adapters, by, cycle, g, call, motor, axis, unitVars, disp>>

\* The controller at index i is unplugged: later indexes move down, and the
\* running driver queues SDL_CONTROLLERDEVICEREMOVED with its instance id.
Unplug ==
  /\ \E i \in 1 .. Len(present) :
       /\ present' = [j \in 1 .. (Len(present) - 1) |->
                        IF j < i THEN present[j] ELSE present[j + 1]]
       /\ queue' = SDL_PushEvent(queue, RemEv(present[i]))
  /\ UNCHANGED <<joinable, caller, init_event, thr, sdl_up, next_inst, accepting,
                 registry, hostrefs, adapters, by, cycle, g, call, motor, axis, unitVars, disp>>

\* ------------------------------------------------------------------ host
\* ControllerInterface finishes its own initialisation.
HostReady ==
  /\ caller = "idle" /\ ~accepting
  /\ accepting' = TRUE
  /\ UNCHANGED <<joinable, caller, init_event, thr, sdl_up, queue, present,
                 next_inst, registry, hostrefs, adapters, by, cycle, g, call, motor, axis, unitVars, disp>>

\* ControllerInterface shuts down: it stops accepting and clears its devices
\* on the host thread.
HostShutdown ==
  /\ caller = "idle" /\ accepting
  /\ accepting' = FALSE
  /\ LET w == UnrefAll([World EXCEPT !.registry = {}], registry, "host")
     IN /\ registry' = w.registry
        /\ adapters' = w.adapters
        /\ by' = w.by
  /\ UNCHANGED <<joinable, caller, init_event, thr, sdl_up, queue, present,
                 next_inst, hostrefs, g, call, cycle, motor, axis, unitVars, disp>>

\* A host thread takes a shared reference to a registered adapter.
HostAcquire ==
  /\ hostrefs = {}
  /\ \E a \in registry \ hostrefs : hostrefs' = hostrefs \cup {a}
  /\ UNCHANGED <<joinable, caller, init_event, thr, sdl_up, queue, present,
                 next_inst, accepting, registry, adapters, by, cycle, g, call, motor, axis, unitVars, disp>>

\* Device::UpdateInput() on a host thread: SDL_GameControllerUpdate() and
\* SDL_JoystickCurrentPowerLevel() poll the controller. What the call does
\* with the power level is BatteryUpdateInput.
HostUpdateInput ==
  /\ \E a \in hostrefs : by' = Did(by, "poll", "host")
  /\ UNCHANGED <<joinable, caller, init_event, thr, sdl_up, queue, present,
                 next_inst, accepting, registry, hostrefs, adapters, g, call,
                 cycle, motor, axis, unitVars, disp>>

\* A host thread drops its reference; the last reference destroys the Device.
HostRelease ==
  /\ \E a \in hostrefs :
       LET w == Unref([World EXCEPT !.hostrefs = @ \ {a}], a, "host")
       IN /\ hostrefs' = w.hostrefs
          /\ adapters' = w.adapters
          /\ by' = w.by
  /\ UNCHANGED <<joinable, caller, init_event, thr, sdl_up, queue, present,
                 next_inst, accepting, registry, g, call, cycle, motor, axis, unitVars, disp>>

\* ------------------------------------------------------------------ spec
\* ------------------------------------------------------------------ motor
MaxCalls == 3      \* Motor.SetState calls during one behaviour

\* new Motor(u8(i), this, 0xFFFF)
MotorRange == 65535

\* Requested states are the fractions n / StateDen; a power of two keeps the
\* double product state * m_range exact.
StateDen == 2 ^ 15
StateNums == {0, 1, 2, StateDen \div 2, StateDen - 1, StateDen}

\* Values an uninitialised Uint16 may hold.
SampleU16 == {0, 1, 32767, 65535}

\* (Uint16)(state * m_range) for state = n / StateDen in [0, 1].
Magnitude(n) == (n * MotorRange) \div StateDen

\* Device::UpdateMotors(): SDL_GameControllerRumble(m_controller, left, right, ...)
UpdateMotors(m) ==
  [m EXCEPT !.commits = @ + 1, !.last = <<m.left, m.right>>]

\* A SetState without the write suppression.
SetStateAlwaysCommits(m, index, n) ==
  IF index # 0
    THEN UpdateMotors([m EXCEPT !.right = Magnitude(n)])
    ELSE UpdateMotors([m EXCEPT !.left = Magnitude(n)])

\* Motor::SetState(state) of the motor with m_index = index.
SetState(m, index, n) ==
  LET m_motor == Magnitude(n)
  IN IF index # 0
       THEN IF m_motor # m.right
              THEN UpdateMotors([m EXCEPT !.right = m_motor])
              ELSE m
       ELSE IF m_motor # m.left
              THEN UpdateMotors([m EXCEPT !.left = m_motor])
              ELSE m

\* The host calls SetState on the left (0) or right (1) motor of the adapter.
MotorSetState ==
  /\ motor.calls < MaxCalls
  /\ \E index \in {0, 1}, n \in StateNums :
       motor' = [SetState(motor, index, n) EXCEPT
                   !.calls = @ + 1, !.req = <<index, n>>]
  /\ UNCHANGED <<joinable, caller, init_event, thr, sdl_up, queue, present,
                 next_inst, accepting, registry, hostrefs, adapters, by, cycle,
                 g, call, axis, unitVars, disp>>

\* No adapter under observation.
MotorIdle == [left |-> 0, right |-> 0, commits |-> 0, last |-> <<0, 0>>,
              calls |-> 0, req |-> <<0, 0>>]

\* Device::Device leaves motor_val uninitialised: any two 16-bit values.
MotorInit ==
  motor \in [left : SampleU16, right : SampleU16, commits : {0},
             last : {<<0, 0>>}, calls : {0}, req : {<<0, 0>>}]

\* ------------------------------------------------------------------ axis
SDL_JOYSTICK_AXIS_MAX == 32767
SDL_JOYSTICK_AXIS_MIN == -32768

\* Conversion of an int argument to the Uint16 range parameter.
ToUint16(x) == x % 65536

\* C++ integer division, which truncates toward zero.
CDiv(a, b) == IF a >= 0 THEN a \div b ELSE -((-a) \div b)

\* Axis::GetState(): ControlState(SDL_GameControllerGetAxis(...) / m_range),
\* an int divided by an int.
AxisGetState(raw, m_range) == CDiv(raw, m_range)

\* Axis::GetName(): the axis name followed by '-' or '+'.
AxisGetName(m_range) == IF m_range < 0 THEN "Left X-" ELSE "Left X+"

\* The two controls AddAnalogInputs receives for one stick axis.
NegRange == ToUint16(SDL_JOYSTICK_AXIS_MIN)
PosRange == ToUint16(SDL_JOYSTICK_AXIS_MAX)

\* Both controls of the axis are read for the driver's current raw sample.
AxisRead ==
  /\ ~axis.read
  /\ axis' = [raw |-> axis.raw, read |-> TRUE,
              neg |-> AxisGetState(axis.raw, NegRange),
              pos |-> AxisGetState(axis.raw, PosRange),
              neg_name |-> AxisGetName(NegRange),
              pos_name |-> AxisGetName(PosRange)]
  /\ UNCHANGED <<joinable, caller, init_event, thr, sdl_up, queue, present,
                 next_inst, accepting, registry, hostrefs, adapters, by, cycle,
                 g, call, motor, unitVars, disp>>

AxisIdle == [raw |-> 0, read |-> FALSE, pos |-> 0, neg |-> 0,
             pos_name |-> "", neg_name |-> ""]

\* The driver reports any signed 16-bit sample.
AxisInit ==
  axis \in [raw : SDL_JOYSTICK_AXIS_MIN .. SDL_JOYSTICK_AXIS_MAX, read : {FALSE},
            pos : {0}, neg : {0}, pos_name : {""}, neg_name : {""}]

\* ------------------------------------------------------------------ battery
\* SDL_JoystickPowerLevel values the driver can report.
PowerStates == {"unknown", "empty", "low", "medium", "full", "wired", "max"}

\* A mapping that takes a full battery for a charged one.
BatteryLevelFullIsOne(p) ==
  IF p \in {"wired", "max", "full"} THEN 10
  ELSE IF p = "medium" THEN 5
  ELSE IF p = "low" THEN 3
  ELSE 0

\* The switch of Device::UpdateInput(), in tenths: 10 stands for 1.0.
BatteryLevel(p) ==
  CASE p = "wired" -> 10
    [] p = "max" -> 10
    [] p = "medium" -> 5
    [] p = "low" -> 3
    [] OTHER -> 0

\* ControlState m_battery_level{}: 0 after construction; no power state read.
BatteryIdle == [level |-> 0, power |-> "none", updates |-> 0]

\* Device::UpdateInput() on the adapter: the driver reports power state p.
BatteryUpdateInput ==
  /\ battery.updates < MaxCalls
  /\ \E p \in PowerStates :
       battery' = [level |-> BatteryLevel(p), power |-> p,
                   updates |-> battery.updates + 1]
  /\ UNCHANGED <<lifeVars, motor, axis, pref, disp>>

\* ------------------------------------------------------------------ index
MaxIndex == 300    \* device indexes offered to OpenAndAddDevice

\* Device::GetPreferredId(): return m_index.
GetPreferredId(d) == d.index

\* No adapter built yet.
PrefIdle == [asked |-> 0, built |-> FALSE, id |-> 0]

\* The driver delivers any index; the open has not happened yet.
PrefInit == pref \in [asked : 0 .. MaxIndex, built : {FALSE}, id : {0}]

\* OpenAndAddDevice(index) with a successful open: std::make_shared<Device>(dev,
\* index), then the host asks the adapter for its preferred id.
BuildAdapter ==
  /\ ~pref.built
  /\ pref' = [asked |-> pref.asked, built |-> TRUE,
              id |-> GetPreferredId(DeviceCtor(1, pref.asked))]
  /\ UNCHANGED <<lifeVars, motor, axis, battery, disp>>

\* ------------------------------------------------------------------ dispatch
\* No queue under observation: nothing is logged.
DispOff == [on |-> FALSE, q0 |-> <<>>, log |-> <<>>, scans |-> 0]

\* The observations that are not in use.
UnitIdle == battery = BatteryIdle /\ pref = PrefIdle

MaxQueue == 4      \* events queued when the observation of a queue begins

\* The events a queue can hold with one controller around.
Events == {AddEv(0), RemEv(1), PopEv, StopEv}

\* Sequences over S of length at most n.
SeqsUpTo(S, n) == UNION {[1 .. k -> S] : k \in 0 .. n}

\* The thread has reached the drain loop or the wait loop of its only Init
\* cycle with any events queued, by the driver and by posting threads; up to
\* two controllers are plugged in.
InitDispatch ==
  /\ joinable = TRUE
  /\ thr \in {"drain", "wait"}
  /\ caller = IF thr = "drain" THEN "init_wait" ELSE "idle"
  /\ init_event = FALSE
  /\ sdl_up = TRUE
  /\ queue \in SeqsUpTo(Events, MaxQueue)
  /\ present \in {<<>>, <<1>>, <<1, 2>>}
  /\ next_inst = Len(present) + 1
  /\ accepting \in BOOLEAN
  /\ registry = {}
  /\ hostrefs = {}
  /\ adapters = <<>>
  /\ by = {}
  /\ cycle = MaxCycles
  /\ g = [G0 EXCEPT !.sdl_rc = -1, !.reg = "ok",
                    !.at_drain = IF thr = "drain" THEN Len(queue) ELSE 0,
                    !.acc_at_init = accepting,
                    !.signalled = (thr = "wait"), !.returned = (thr = "wait")]
  /\ call = [op |-> "Init", pushed |-> "none"]
  /\ motor = MotorIdle /\ axis = AxisIdle /\ UnitIdle
  /\ disp = [on |-> TRUE, q0 |-> queue, log |-> <<>>, scans |-> 0]

MaxDevs == 3       \* devices registered when a remove event is observed

\* A registered device of another source, with whatever id its own backend
\* keeps where this one keeps the joystick instance id.
OtherDevice(inst) ==
  [kind |-> "other", index |-> 0, inst |-> inst, closes |-> 0, refused |-> FALSE]

\* The thread waits with one remove event queued; the registry holds any mix
\* of this source's adapters and other sources' devices.
InitRemove ==
  /\ joinable = TRUE
  /\ thr = "wait"
  /\ caller = "idle"
  /\ init_event = FALSE
  /\ sdl_up = TRUE
  /\ \E k \in 1 .. 3 : queue = <<RemEv(k)>>
  /\ present = <<>>
  /\ next_inst = 1
  /\ accepting = TRUE
  /\ adapters \in SeqsUpTo({DeviceCtor(1, 0), DeviceCtor(2, 1),
                            OtherDevice(1), OtherDevice(2)}, MaxDevs)
  /\ registry = DOMAIN adapters
  /\ hostrefs = {}
  /\ by = {}
  /\ cycle = MaxCycles
  /\ g = [G0 EXCEPT !.sdl_rc = -1, !.reg = "ok", !.acc_at_init = TRUE,
                    !.signalled = TRUE, !.returned = TRUE]
  /\ call = [op |-> "Init", pushed |-> "none"]
  /\ motor = MotorIdle /\ axis = AxisIdle /\ UnitIdle
  /\ disp = [on |-> TRUE, q0 |-> queue, log |-> <<>>, scans |-> 0]

\* The thread dispatching that remove event.
SpecRemove == InitRemove /\ [][ThreadWait]_vars

\* The thread working off that queue, alone.
SpecDispatch ==
  InitDispatch /\ [][ThreadDrain \/ ThreadWait \/ ThreadWaitError \/ ThreadQuit]_vars

LifeInit ==
  /\ joinable = FALSE
  /\ caller = "idle"
  /\ init_event = FALSE
  /\ thr = "none"
  /\ sdl_up = FALSE
  /\ queue = <<>>
  /\ present = <<>>
  /\ next_inst = 1
  /\ accepting = FALSE
  /\ registry = {}
  /\ hostrefs = {}
  /\ adapters = <<>>
  /\ by = {}
  /\ cycle = 0
  /\ g = G0
  /\ call = [op |-> "none", pushed |-> "none"]

Init ==
  LifeInit /\ motor = MotorIdle /\ axis = AxisIdle /\ UnitIdle /\ disp = DispOff

Next ==
  \/ InitCall \/ InitReturn \/ DeInit \/ DeInitJoin \/ PopulateDevices
  \/ ThreadSdlInit \/ ThreadRegister \/ ThreadDrain \/ ThreadWait
  \/ ThreadWaitError \/ ThreadQuit
  \/ Plug \/ Unplug
  \/ HostReady \/ HostShutdown \/ HostAcquire \/ HostUpdateInput \/ HostRelease

Spec == Init /\ [][Next]_vars

\* The coordinator's lifecycle without the host threads' adapter references,
\* which touch neither the thread, the queue nor the completion signal.
LifecycleNext ==
  \/ InitCall \/ InitReturn \/ DeInit \/ DeInitJoin \/ PopulateDevices
  \/ ThreadSdlInit \/ ThreadRegister \/ ThreadDrain \/ ThreadWait
  \/ ThreadWaitError \/ ThreadQuit
  \/ Plug \/ Unplug
  \/ HostReady \/ HostShutdown

\* Fairness: the scheduler runs a thread that can run. It covers the thread
\* steps that need no event to arrive and the return of Init().
FairSpec ==
  /\ Init /\ [][LifecycleNext]_vars
  /\ WF_vars(ThreadSdlInit \/ ThreadRegister \/ ThreadDrain \/ ThreadQuit)
  /\ WF_vars(InitReturn)

\* Fairness for DeInit(): besides the above, the driver's blocking wait hands
\* over an event that is queued, and join() returns once the thread has exited.
FairDeliverSpec ==
  /\ FairSpec
  /\ WF_vars(ThreadWait)
  /\ WF_vars(DeInitJoin)

\* One adapter's motors under any sequence of SetState calls.
InitMotor == LifeInit /\ MotorInit /\ axis = AxisIdle /\ UnitIdle /\ disp = DispOff

SpecMotor == InitMotor /\ [][MotorSetState]_vars

\* One stick axis read at any raw sample.
InitAxis == LifeInit /\ AxisInit /\ motor = MotorIdle /\ UnitIdle /\ disp = DispOff

SpecAxis == InitAxis /\ [][AxisRead]_vars

\* One adapter's battery level under any sequence of UpdateInput and
\* Motor.SetState calls.
InitBattery ==
  /\ LifeInit /\ MotorInit /\ axis = AxisIdle /\ battery = BatteryIdle
  /\ pref = PrefIdle /\ disp = DispOff

SpecBattery == InitBattery /\ [][BatteryUpdateInput \/ MotorSetState]_vars

\* One adapter built for any device index.
InitIndex ==
  /\ LifeInit /\ motor = MotorIdle /\ axis = AxisIdle /\ battery = BatteryIdle
  /\ PrefInit /\ disp = DispOff

SpecIndex == InitIndex /\ [][BuildAdapter]_vars

\* ------------------------------------------------------------------ claims
\* C1: the Host Registry holds at most one adapter of this source per joystick
\* instance id, in every reachable state.
C1_OnePerInstance ==
  \A a, b \in registry : adapters[a].inst = adapters[b].inst => a = b

\* The drain phase dispatched exactly add(0) then stop, with the registry not
\* accepting when Init() was called.
C2_Scenario == g.drain_log = <<AddEv(0), StopEv>> /\ ~g.acc_at_init

\* Nothing is left for the thread to dispatch.
Quiescent == queue = <<>> /\ thr \in {"wait", "exited", "none"}

\* C2 as stated: in that scenario the registry is empty when Init() returns,
\* and once a later PopulateDevices() (device 0 still plugged in) has been
\* worked off, exactly one adapter for index 0 is registered.
C2_PopulateRegistersOne ==
  C2_Scenario =>
    /\ g.returned => g.reg_at_return = 0
    /\ (g.pop_after /\ accepting /\ present # <<>> /\ Quiescent)
         => Cardinality({a \in registry : adapters[a].index = 0}) = 1

\* C2 amended: in that scenario the registry is empty when Init() returns, and
\* a later PopulateDevices() registers nothing, because the stop event
\* dispatched in the drain phase has ended the thread.
C2_PopulateRegistersNone ==
  C2_Scenario =>
    /\ g.returned => g.reg_at_return = 0
    /\ g.pop_after => registry = {}

C2_Witness ==
  /\ C2_Scenario /\ g.returned /\ g.pop_after
  /\ accepting /\ present # <<>> /\ Quiescent /\ registry = {}
  /\ \E a \in 1 .. Len(adapters) : adapters[a].refused

\* C3: the thread leaves before the drain phase exactly when the driver start
\* failed or the event-id allocation failed.
C3_EarlyExitIffFailure ==
  (g.sdl_rc # 1 /\ thr # "reg") =>
    (g.reg # "ok" <=> (g.sdl_rc = -1 \/ g.reg = "fail"))

\* The thread function returned before the drain phase could finish.
Aborted == g.left \in {"start", "register", "drain_stop"}

\* C4 (state part): Init() has not returned before the thread aborted startup
\* or dispatched every event queued when the drain began, and the wait loop
\* is entered only with the completion signal set.
C4_NotBeforeDrain ==
  /\ g.returned => (Aborted \/ g.at_drain = 0)
  /\ thr = "wait" => g.signalled

\* C4: Init() returns on every startup path, and never too early.
C4_InitReturns ==
  /\ []C4_NotBeforeDrain
  /\ (caller = "init_wait") ~> (caller = "idle")

C4_Witness ==
  /\ g.returned /\ ~Aborted /\ thr = "wait"
  /\ Len(g.drain_log) > 0 /\ g.at_drain = 0

\* C5 (state part): one Init cycle sees at most one stop event posted by
\* DeInit() and one join, the join only after the post.
C5_OncePerCycle ==
  /\ g.stops <= 1 /\ g.joins <= 1
  /\ caller = "deinit_join" => g.stops = 1 /\ g.joins = 0
  /\ g.joins = 1 => g.stops = 1 /\ ~joinable

\* C5 (step part): with no joinable thread nothing posts a stop event or
\* joins, and a DeInit() call changes nothing; with a joinable thread a
\* DeInit() call posts one stop event and goes on to the join, which is
\* taken only once the thread has exited.
C5_Step ==
  /\ (~joinable /\ ~joinable') =>
       /\ g'.stops = g.stops /\ g'.joins = g.joins
       /\ (call' # call /\ call'.op = "DeInit") =>
            /\ call'.pushed = "none"
            /\ UNCHANGED <<joinable, caller, init_event, thr, sdl_up, queue,
                           present, next_inst, accepting, registry, hostrefs,
                           adapters, by, cycle, g>>
  /\ (joinable /\ call' # call /\ call'.op = "DeInit") =>
       /\ call'.pushed = "stop"
       /\ g'.stops = g.stops + 1
       /\ caller' = "deinit_join"
       /\ queue' = IF sdl_up THEN Append(queue, StopEv) ELSE queue
  /\ g'.joins > g.joins =>
       caller = "deinit_join" /\ thr = "exited" /\ ~joinable' /\ thr' = "none"

\* C5: DeInit() is idempotent and safe without Init().
C5_DeInitIdempotent == []C5_OncePerCycle /\ [][C5_Step]_vars

C5_Witness ==
  /\ ~joinable /\ g.joins = 1 /\ g.stops = 1
  /\ call = [op |-> "DeInit", pushed |-> "none"]

\* The background thread is running.
ThreadRunning == thr \notin {"none", "exited"}

\* C6: a PopulateDevices() call posts a populate event exactly when the
\* background thread is running, and changes nothing when it is not.
C6_PostsIffRunning ==
  [][(call' # call /\ call'.op = "PopulateDevices") =>
       /\ call'.pushed = "pop" <=> ThreadRunning
       /\ ~ThreadRunning => UNCHANGED <<queue, by, g>>]_vars

\* C7 as stated: threads other than the coordinator only post events.
C7_OnlyCoordinatorTouchesDriver == \A x \in by : x[1] = "post"

\* C7 amended: every open of a controller and every poll or wait on the event
\* queue is done by the coordinator thread; host threads poll a controller in
\* UpdateInput, close it when they drop the last reference to its adapter,
\* and post events.
C7_OnlyCoordinatorOpensAndPolls ==
  \A x \in by : x[1] \in {"post", "poll", "close"}

C7_Witness ==
  /\ <<"poll", "host">> \in by /\ <<"close", "host">> \in by
  /\ <<"post", "host">> \in by /\ adapters # <<>>

\* C8: every handle an adapter was built on is open while the adapter is
\* referenced (registered or held) and has been closed exactly once when it
\* is not, refused adapters included.
C8_HandleClosedOnce ==
  \A a \in 1 .. Len(adapters) :
    /\ adapters[a].closes <= 1
    /\ a \in registry \cup hostrefs => adapters[a].closes = 0
    /\ a \notin registry \cup hostrefs => adapters[a].closes = 1

C8_Witness ==
  /\ \E a \in 1 .. Len(adapters) :
       adapters[a].refused /\ adapters[a].closes = 1
  /\ \E a \in registry : adapters[a].closes = 0

\* The 16-bit magnitude the claim assigns to the request n / StateDen.
C9_Maps(n) == (n * 65535) \div StateDen

\* C9: a SetState call mapping to the side's stored magnitude commits nothing
\* and changes nothing; one mapping to another magnitude stores it for that
\* side only and commits once, with the stored pair.
C9_Step ==
  motor'.calls = motor.calls + 1 =>
    LET index == motor'.req[1]
        mag == C9_Maps(motor'.req[2])
        old == IF index = 0 THEN motor.left ELSE motor.right
    IN IF mag = old
         THEN /\ motor'.left = motor.left /\ motor'.right = motor.right
              /\ motor'.commits = motor.commits /\ motor'.last = motor.last
         ELSE /\ motor'.left = (IF index = 0 THEN mag ELSE motor.left)
              /\ motor'.right = (IF index = 0 THEN motor.right ELSE mag)
              /\ motor'.commits = motor.commits + 1
              /\ motor'.last = <<motor'.left, motor'.right>>

C9_WriteSuppression == [][C9_Step]_vars

C9_Witness ==
  /\ motor.calls = 3 /\ motor.commits = 2
  /\ motor.last = <<motor.left, motor.right>>
  /\ motor.left = C9_Maps(StateDen) /\ motor.right = C9_Maps(2)

\* C10: the positive control is 1 at the positive extreme, 0 at rest and about
\* 0, never negative, at the negative extreme; the negative control mirrors
\* it; the two controls are told apart by their polarity.
C10_AxisNormalised ==
  axis.read =>
    /\ axis.raw = 32767 => axis.pos = 1 /\ axis.neg = 0
    /\ axis.raw = 0 => axis.pos = 0 /\ axis.neg = 0
    /\ axis.raw = -32768 => axis.neg = 1 /\ axis.pos = 0
    /\ axis.pos >= 0 /\ axis.neg >= 0
    /\ axis.pos_name # axis.neg_name

\* The level the claim assigns to a power state, in tenths.
C11_Level(p) ==
  IF p \in {"wired", "max"} THEN 10
  ELSE IF p = "medium" THEN 5
  ELSE IF p = "low" THEN 3
  ELSE 0

\* C11 (state part): the battery level is one of 0.0, 0.3, 0.5 and 1.0, and
\* it is 0 as long as UpdateInput() has not run.
C11_FourValues ==
  /\ battery.level \in {0, 3, 5, 10}
  /\ battery.updates = 0 => battery.level = 0

\* C11 (step part): an UpdateInput() call sets the level the mapping gives for
\* the power state read; any other step leaves the level alone.
C11_Step ==
  IF battery'.updates = battery.updates + 1
    THEN battery'.level = C11_Level(battery'.power)
    ELSE battery'.level = battery.level

\* C11: the battery mapping is total and exact.
C11_BatteryMapping == []C11_FourValues /\ [][C11_Step]_vars

C11_Witness ==
  /\ battery.updates = 2 /\ battery.power = "full" /\ battery.level = 0
  /\ motor.commits > 0

\* C12: the adapter built for device index i reports GetPreferredId() = i.
C12_IndexSurvives == pref.built => pref.id = pref.asked

\* Number of populate events in a sequence of events.
C13_Pops(q) == Cardinality({i \in 1 .. Len(q) : q[i].type = "pop"})

Dispatches(type) ==
  /\ disp.on /\ queue # <<>> /\ Head(queue).type = type
  /\ Len(disp'.log) = Len(disp.log) + 1

\* C14: dispatching add(i) builds at most one adapter and only on a handle the
\* driver opened for a present index i; that adapter gets the one AddDevice
\* call (registered when the registry accepts, refused and destroyed when it
\* does not); nothing registered before is touched. With no adapter built,
\* adapters and registry are as before. Either way the event is consumed and
\* the thread stays in its loop.
C14_Step ==
  Dispatches("add") =>
    LET i == Head(queue).which
        new == Len(adapters) + 1
        built == Len(adapters') - Len(adapters)
    IN /\ built \in {0, 1}
       /\ SubSeq(adapters', 1, Len(adapters)) = adapters
       /\ registry \subseteq registry'
       /\ registry' \ registry \subseteq {new}
       /\ built = 1 =>
            /\ i \in 0 .. (Len(present) - 1)
            /\ adapters'[new].inst = present[i + 1]
            /\ new \in registry' <=> accepting
            /\ ~accepting => adapters'[new].refused /\ adapters'[new].closes = 1
            /\ accepting => ~adapters'[new].refused /\ adapters'[new].closes = 0
       /\ built = 0 => adapters' = adapters /\ registry' = registry
       /\ i \notin 0 .. (Len(present) - 1) => built = 0
       /\ queue' = Tail(queue)
       /\ thr' = thr

C14_AddDispatch == [][C14_Step]_vars

C14_Witness ==
  /\ disp.on /\ thr = "wait" /\ accepting /\ present = <<1>>
  /\ disp.log = <<AddEv(0), AddEv(0)>> /\ queue # <<>>
  /\ Len(adapters) = 1 /\ registry = {1}

\* C15: dispatching remove(k) takes out of the registry exactly this source's
\* adapters with instance id k; every other registered device stays, as it
\* was; with no match nothing changes; the thread stays in its loop.
C15_Step ==
  Dispatches("rem") =>
    LET k == Head(queue).which
        match == {a \in registry : adapters[a].kind = "Device" /\ adapters[a].inst = k}
    IN /\ registry' = registry \ match
       /\ Len(adapters') = Len(adapters)
       /\ \A a \in registry' : adapters'[a] = adapters[a]
       /\ match = {} => registry' = registry /\ adapters' = adapters
       /\ thr' = thr

C15_RemoveDispatch == [][C15_Step]_vars

C15_Witness ==
  /\ disp.on /\ disp.log = <<RemEv(1)>> /\ Len(adapters) = 3
  /\ \E a \in registry : adapters[a].kind = "other" /\ adapters[a].inst = 1
  /\ \E a \in registry : adapters[a].kind = "Device" /\ adapters[a].inst = 2
  /\ \E a \in DOMAIN adapters :
       /\ a \notin registry /\ adapters[a].closes = 1
       /\ adapters[a].kind = "Device" /\ adapters[a].inst = 1

\* C16: dispatching a populate event while the registry accepts leaves in the
\* registry exactly the adapters this scan built, one per present index whose
\* open succeeded, each on that index's controller; no adapter registered
\* before is registered after, and those nobody else holds are destroyed.
C16_Step ==
  (Dispatches("pop") /\ accepting) =>
    LET fresh == (Len(adapters) + 1) .. Len(adapters')
    IN /\ registry' = fresh
       /\ registry' \cap registry = {}
       /\ Cardinality(fresh) <= Len(present)
       /\ SubSeq(adapters', 1, Len(adapters)) =
            [a \in DOMAIN adapters |->
               IF a \in registry \ hostrefs
                 THEN [adapters[a] EXCEPT !.closes = 1] ELSE adapters[a]]
       /\ \A a \in fresh :
            /\ adapters'[a].index \in 0 .. (Len(present) - 1)
            /\ adapters'[a].inst = present[adapters'[a].index + 1]
            /\ adapters'[a].closes = 0 /\ ~adapters'[a].refused
       /\ \A a, b \in fresh : adapters'[a].index = adapters'[b].index => a = b
       /\ disp'.scans = disp.scans + 1
       /\ thr' = thr

C16_PopulateDispatch == [][C16_Step]_vars

C16_Witness ==
  /\ disp.on /\ accepting /\ present = <<1, 2>>
  /\ disp.log = <<AddEv(0), PopEv>>
  /\ Len(adapters) = 3 /\ registry = {2, 3}
  /\ adapters[1].closes = 1 /\ adapters[2].index = 0 /\ adapters[3].index = 1

\* The ways the thread function returns.
ExitPaths == {"start", "register", "drain_stop", "wait_stop", "wait_error"}

\* C17 (state part): the driver is released at most once per Init cycle; a
\* thread that has exited has released it, a thread still running has not;
\* once DeInit() has joined, the thread is gone and the driver released.
C17_Released ==
  /\ g.quits <= 1
  /\ thr \in {"init", "reg", "drain", "wait"} => g.quits = 0 /\ g.left = "running"
  /\ thr = "quit" => g.quits = 0 /\ g.left \in ExitPaths
  /\ thr = "exited" => g.quits = 1 /\ ~sdl_up /\ g.left \in ExitPaths
  /\ g.joins = 1 => g.quits = 1 /\ thr = "none" /\ ~sdl_up /\ g.left \in ExitPaths

\* C17 (step part): the release is the thread's last step, taken after it
\* left its loops; after it nothing is opened, registered or dispatched.
C17_Step ==
  /\ g'.quits = g.quits + 1 =>
       /\ thr = "quit" /\ thr' = "exited" /\ ~sdl_up'
       /\ UNCHANGED <<adapters, registry, by>>
  /\ (g.quits = 1 /\ g'.quits = 1) =>
       /\ Len(adapters') = Len(adapters)
       /\ registry' \subseteq registry
       /\ queue' = queue

\* C17: every exit path of the thread releases the driver exactly once, last.
C17_ReleaseOnExit ==
  /\ []C17_Released
  /\ [][C17_Step]_vars
  /\ \A p \in ExitPaths : (g.left = p /\ g.quits = 0) ~> (g.left = p /\ g.quits = 1)

C17_Witness ==
  /\ caller = "idle" /\ g.joins = 1 /\ g.quits = 1 /\ g.left = "wait_error"
  /\ thr = "none" /\ ~sdl_up /\ adapters # <<>>

\* C18: a DeInit() that has posted its stop event returns, wherever the
\* thread is, as long as the driver's queue was running to take the event;
\* and a DeInit() that never returns leaves the thread for ever in the wait
\* loop with nothing delivered to it.
C18_DeInitReturns ==
  /\ (caller = "deinit_join" /\ (thr = "wait" => sdl_up)) ~> (caller = "idle")
  /\ <>[](caller = "deinit_join") => <>[](thr = "wait" /\ queue = <<>>)

C18_Witness ==
  /\ caller = "idle" /\ g.joins = 1 /\ g.stops = 1 /\ g.left = "wait_stop"
  /\ thr = "none" /\ call.op = "DeInit"

\* C19: PopulateDevices() and DeInit() post only while the thread has not
\* begun to leave, and on the paths that leave before the wait loop the
\* completion signal is set only once the driver has been released.
C19_Step ==
  /\ (call' # call /\ call'.pushed # "none") => thr \notin {"quit", "exited"}
  /\ (init_event' /\ ~init_event /\ g'.left \in {"start", "register", "drain_stop"})
       => g'.quits = 1

C19_NoPostAfterRelease == [][C19_Step]_vars

\* C20: a fresh adapter's motor state is {0, 0}, so the first SetState call
\* commits exactly when the requested value maps to a non-zero magnitude.
C20_FreshMotorsZero ==
  motor.calls = 1 =>
    /\ motor.commits = 1 <=> C9_Maps(motor.req[2]) # 0
    /\ motor.req[1] = 0 => motor.right = 0
    /\ motor.req[1] = 1 => motor.left = 0

====
